---- MODULE Spec2Model ----
\* PrioritisedReplayBuffer of fab/utils/prioritised_replay_buffer.py as a state
\* machine: construction (assertion and fill loop), add, sample,
\* sample_n_batches, adjust, save and load; add called from two threads at
\* once; the caller's loop of add, sample and adjust; and the self-check under
\* __main__.
EXTENDS Integers, Sequences, FiniteSets, TLC

\* ------------------------------------------------------------------ bounds
\* largest max_length a buffer is constructed with (the scenario of six slots
\* and the self-check have their own, fixed, max_length)
MaxLength == 2
\* largest batch_size asked of sample, largest batch_size and largest n_batches
\* asked of sample_n_batches, and largest number of entries of an adjust call
MaxBatch == 2
\* most calls of adjust, save (by this buffer or another), load and add beyond
\* max_length made once the buffer is constructed; add within max_length and
\* sampling are not counted
MaxOps == 2

\* ------------------------------------------------------- float32 scalars
\* A tensor element: a finite number, +inf / -inf, or NaN.
Fin(n) == [k |-> "fin", v |-> n]
PInf == [k |-> "inf", v |-> 1]
NInf == [k |-> "inf", v |-> -1]
NaN == [k |-> "nan", v |-> 0]

isinf(a) == a.k = "inf"
isnan(a) == a.k = "nan"

\* IEEE addition: NaN is absorbing, inf + (-inf) is NaN.
fadd(a, b) ==
    IF isnan(a) \/ isnan(b) THEN NaN
    ELSE IF isinf(a) /\ isinf(b) THEN (IF a.v = b.v THEN a ELSE NaN)
    ELSE IF isinf(a) THEN a
    ELSE IF isinf(b) THEN b
    ELSE Fin(a.v + b.v)

fneg(a) == IF isnan(a) THEN NaN ELSE [k |-> a.k, v |-> 0 - a.v]

\* a <= b on non-NaN scalars
fleq(a, b) ==
    IF isinf(a) THEN (a.v = -1 \/ (isinf(b) /\ b.v = 1))
    ELSE IF isinf(b) THEN b.v = 1
    ELSE a.v <= b.v

\* ------------------------------------------------------------- the buffer
VARIABLES
    max_length,               \* self.max_length
    min_sample_length,        \* self.min_sample_length
    sample_with_replacement,  \* self.sample_with_replacement
    buffer,                   \* self.buffer: [x, log_w, log_q_old], each a function on slots
    current_index,            \* self.current_index
    is_full,                  \* self.is_full
    can_sample,               \* self.can_sample
    pc,                       \* "new" at the call of __init__, "init" inside its fill loop,
                              \* "ready" once it returned, "failed" once it raised
    file,                     \* the file at the path: <<>>, or <<what save last wrote there>>
    last,                     \* the last call: its name, arguments and result
    total,                    \* records passed to add so far, counted up to max_length
    written,                  \* slots some add has written
    order,                    \* the written slots, from the one whose record was
                              \* inserted earliest to the one inserted last
    held,                     \* what the caller keeps of its last sample for adjust:
                              \* the indices, and which of their slots add has
                              \* overwritten since
    nops,                     \* counted calls made so far
    threads                   \* the threads that call add at the same time: whether
                              \* the caller guards the buffer with a lock, who holds
                              \* it, and each thread's position and locals in add

vars == <<max_length, min_sample_length, sample_with_replacement, buffer,
          current_index, is_full, can_sample, pc, file, last, total, written, nops,
          threads, order, held>>

config == <<max_length, min_sample_length, sample_with_replacement>>
flags == <<current_index, is_full, can_sample>>

Slots == 0 .. (max_length - 1)

\* torch.zeros(max_length, ...) for the three arrays
ZeroBuffer(n) ==
    [x |-> [s \in 0 .. (n - 1) |-> 0],
     log_w |-> [s \in 0 .. (n - 1) |-> Fin(0)],
     log_q_old |-> [s \in 0 .. (n - 1) |-> Fin(0)]]

\* One record of a batch handed to add: x, log_w and log_q_old of one sample.
Records ==
    {[x |-> 1, log_w |-> Fin(0), log_q_old |-> Fin(1)],
     [x |-> 2, log_w |-> NInf, log_q_old |-> Fin(2)]}

\* all sequences over S of length n
SeqsOfLen(S, n) == [1 .. n -> S]

\* the batch sizes handed to add within its precondition, the empty batch included
BatchSizes == 0 .. max_length

\* the record of a call: its name, whether it returned (ok) or raised, its
\* arguments and returned tensors, and the exception it raised ("none" if it
\* returned; Raised sets it)
Call(op, ok, batch_size, x, log_w, log_q_old, indices, n_batches, dataset) ==
    [op |-> op, ok |-> ok, batch_size |-> batch_size, x |-> x, log_w |-> log_w,
     log_q_old |-> log_q_old, indices |-> indices, n_batches |-> n_batches,
     dataset |-> dataset, error |-> "none"]

\* the record of a call that raised: nothing is returned
Raised(op, batch_size, n_batches, error) ==
    [Call(op, FALSE, batch_size, <<>>, <<>>, <<>>, <<>>, n_batches, <<>>)
        EXCEPT !.error = error]

NoCall == Call("none", TRUE, 0, <<>>, <<>>, <<>>, <<>>, 0, <<>>)

\* the caller holds no sampled indices
NoHeld == [indices |-> <<>>, stale |-> {}]

\* no thread has been started: every call is made from one control flow
NoThreads == [locked |-> FALSE, holder |-> 0, start |-> 0, start_full |-> FALSE, th |-> <<>>]

Init ==
    /\ max_length \in 1 .. MaxLength
    /\ min_sample_length \in 0 .. MaxLength
    /\ sample_with_replacement \in BOOLEAN
    /\ buffer = ZeroBuffer(max_length)
    /\ current_index = 0
    /\ is_full = FALSE
    /\ can_sample = FALSE
    /\ pc = "new"
    /\ file = <<>>
    /\ last = NoCall
    /\ total = 0
    /\ written = {}
    /\ order = <<>>
    /\ nops = 0
    /\ threads = NoThreads
    /\ held = NoHeld

\* variant of AssertConfiguration: min_sample_length = max_length is let through
AssertConfigurationLeq == min_sample_length <= max_length

\* assert min_sample_length < max_length
AssertConfiguration == min_sample_length < max_length

\* __init__ up to its fill loop: the assertion, then the attributes (which Init
\* already holds); nothing is allocated and no sampler is called if it fails
Construct ==
    /\ pc = "new"
    /\ IF AssertConfiguration
       THEN /\ pc' = "init"
            /\ last' = Call("__init__", TRUE, 0, <<>>, <<>>, <<>>, <<>>, 0, <<>>)
       ELSE /\ pc' = "failed"
            /\ last' = Raised("__init__", 0, 0, "AssertionError")
    /\ UNCHANGED <<config, held, threads, buffer, flags, file, total, written, order, nops>>

\* ------------------------------------------------------------------- add
\* variant of AddIndices: the slots are not taken modulo max_length
AddIndicesNoWrap(b) == [i \in 1 .. b |-> (i - 1) + current_index]

\* indices = (torch.arange(batch_size) + self.current_index) % self.max_length,
\* as a sequence: position i + 1 holds the slot of record i
AddIndices(b) == [i \in 1 .. b |-> ((i - 1) + current_index) % max_length]

\* tensor[indices] = values. Where indices repeat, the element that is kept is
\* not defined by torch: any of the values aimed at the slot may win.
IndexPut(arr, idxs, vals) ==
    LET touched == {idxs[j] : j \in DOMAIN idxs}
        aimed(s) == {j \in DOMAIN idxs : idxs[j] = s}
        winners == {w \in [touched -> DOMAIN idxs] : \A s \in touched : w[s] \in aimed(s)}
    IN  IF \A s \in touched : Cardinality(aimed(s)) = 1
        THEN {[s \in DOMAIN arr |->
                 IF s \in touched THEN vals[CHOOSE j \in aimed(s) : TRUE] ELSE arr[s]]}
        ELSE {[s \in DOMAIN arr |-> IF s \in touched THEN vals[w[s]] ELSE arr[s]] :
                 w \in winners}

Field(batch, f) == [j \in DOMAIN batch |-> batch[j][f]]

\* new_index = self.current_index + batch_size
NewIndex(b) == current_index + b

\* variant of IsFullAfter: full only once new_index exceeds max_length
IsFullAfterStrict(b) == IF ~is_full THEN NewIndex(b) > max_length ELSE is_full

\* variant of IsFullAfter: the flag is recomputed on every add
IsFullAfterRecomputed(b) == NewIndex(b) >= max_length

\* variant of IsFullAfter: full one record before the arrays are
IsFullAfterEarly(b) == IF ~is_full THEN NewIndex(b) >= max_length - 1 ELSE is_full

\* if not self.is_full: self.is_full = new_index >= self.max_length
IsFullAfter(b) == IF ~is_full THEN NewIndex(b) >= max_length ELSE is_full

\* variant of CanSampleAfter: new_index is compared with 0
CanSampleAfterAnyBatch(b) == IF ~is_full THEN NewIndex(b) >= 0 ELSE can_sample

\* variant of CanSampleAfter: new_index is compared with max_length
CanSampleAfterWhenFull(b) == IF ~is_full THEN NewIndex(b) >= max_length ELSE can_sample

\* variant of CanSampleAfter: the flag is recomputed on every add
CanSampleAfterRecomputed(b) == NewIndex(b) >= min_sample_length

\* variant of CanSampleAfter: new_index must exceed min_sample_length
CanSampleAfterStrict(b) == IF ~is_full THEN NewIndex(b) > min_sample_length ELSE can_sample

\* if not self.is_full: self.can_sample = new_index >= self.min_sample_length
CanSampleAfter(b) == IF ~is_full THEN NewIndex(b) >= min_sample_length ELSE can_sample

\* variant of CurrentIndexAfter: new_index is stored as it is
CurrentIndexAfterNoWrap(b) == NewIndex(b)

\* variant of CurrentIndexAfter: the cursor is left where it was
CurrentIndexAfterStuck(b) == current_index

\* self.current_index = new_index % self.max_length
CurrentIndexAfter(b) == NewIndex(b) % max_length

\* the count of inserted records, which stops at max_length: from there on the
\* buffer has been filled once and the count is no longer told apart
TotalAfter(b) == IF total + b >= max_length THEN max_length ELSE total + b

\* the slots in s, in the order of s, that are not in the set gone
Without(s, gone) == SelectSeq(s, LAMBDA e : e \notin gone)

\* the slots of indices, each once, in the order they were last written:
\* consecutive slots modulo max_length repeat only after max_length of them
LastWritten(indices) ==
    SubSeq(indices, IF Len(indices) > max_length THEN Len(indices) - max_length + 1 ELSE 1,
           Len(indices))

\* the written slots by age once the slots of indices have been overwritten
OrderAfter(indices) ==
    Without(order, {indices[j] : j \in DOMAIN indices}) \o LastWritten(indices)

\* the body of add, for one batch
AddBody(batch) ==
    LET b == Len(batch)
        indices == AddIndices(b)
    IN  /\ \E bx \in IndexPut(buffer.x, indices, Field(batch, "x")),
              bw \in IndexPut(buffer.log_w, indices, Field(batch, "log_w")),
              bq \in IndexPut(buffer.log_q_old, indices, Field(batch, "log_q_old")) :
              buffer' = [x |-> bx, log_w |-> bw, log_q_old |-> bq]
        /\ is_full' = IsFullAfter(b)
        /\ can_sample' = CanSampleAfter(b)
        /\ current_index' = CurrentIndexAfter(b)
        /\ total' = TotalAfter(b)
        /\ written' = written \cup {indices[j] : j \in 1 .. b}
        /\ order' = OrderAfter(indices)
        /\ last' = Call("add", TRUE, b, Field(batch, "x"), Field(batch, "log_w"),
                        Field(batch, "log_q_old"), indices, 0, <<>>)

\* __init__: one turn of "while self.can_sample is False", the sampler's batch
\* added; the constructor returns when the loop test fails
Fill ==
    /\ pc = "init"
    /\ can_sample = FALSE
    /\ \E b \in BatchSizes : \E batch \in SeqsOfLen(Records, b) : AddBody(batch)
    /\ pc' = IF can_sample' THEN "ready" ELSE "init"
    /\ UNCHANGED <<config, held, threads, file, nops>>

Add ==
    /\ pc = "ready"
    /\ \E b \in BatchSizes : \E batch \in SeqsOfLen(Records, b) : AddBody(batch)
    /\ UNCHANGED <<config, held, threads, pc, file, nops>>

\* add of a batch one record longer than max_length, which add does not refuse
AddOverflow ==
    /\ pc = "ready"
    /\ nops < MaxOps
    /\ \E batch \in SeqsOfLen(Records, max_length + 1) : AddBody(batch)
    /\ nops' = nops + 1
    /\ UNCHANGED <<config, held, threads, pc, file>>

\* ---------------------------------------------------------------- sample
\* variant of MaxIndex: the cursor, full or not
MaxIndexCursor == current_index

\* variant of MaxIndex: the whole array, filled or not
MaxIndexWhole == max_length

\* max_index = self.max_length if self.is_full else self.current_index
MaxIndex == IF is_full THEN max_length ELSE current_index

\* self.buffer.log_w[:max_index]
LogWSlice == [i \in 0 .. (MaxIndex - 1) |-> buffer.log_w[i]]

\* torch.max of a non-empty tensor: NaN if any element is NaN, else the greatest
TorchMax(w) ==
    IF \E i \in DOMAIN w : isnan(w[i]) THEN NaN
    ELSE CHOOSE m \in {w[i] : i \in DOMAIN w} : \A i \in DOMAIN w : fleq(w[i], m)

\* torch.exp, by the class of its result: "nan", "zero" (exp(-inf)), "inf" or
\* "pos" (a positive finite number)
fexp(a) ==
    IF isnan(a) THEN "nan"
    ELSE IF isinf(a) THEN (IF a.v = 1 THEN "inf" ELSE "zero")
    ELSE "pos"

\* sample_probs = torch.exp(log_w[:max_index] - torch.max(log_w[:max_index]))
SampleProbs(w) == [i \in DOMAIN w |-> fexp(fadd(w[i], fneg(TorchMax(w))))]

\* Categorical(logits=w).probs: the softmax of w. logsumexp is NaN, +inf or -inf
\* when w holds a NaN, a +inf, or only -inf, and then every probability is NaN.
CategoricalProbs(w) ==
    IF \/ \E i \in DOMAIN w : isnan(w[i]) \/ w[i] = PInf
       \/ \A i \in DOMAIN w : w[i] = NInf
    THEN [i \in DOMAIN w |-> "nan"]
    ELSE [i \in DOMAIN w |-> fexp(w[i])]

Injective(q) == \A i, j \in DOMAIN q : i # j => q[i] # q[j]

\* the outcomes of a draw: an exception raised inside torch, or the indices
Raise == [ok |-> FALSE, indices |-> <<>>, error |-> "RuntimeError"]
Drawn(q) == [ok |-> TRUE, indices |-> q, error |-> "none"]

\* raise Exception("Buffer must be at minimum length before calling sample")
NotReady == [ok |-> FALSE, indices |-> <<>>, error |-> "Exception"]

\* variant of Multinomial: num_samples is not compared with the number of
\* categories, and categories are drawn again once they are used up
MultinomialRecycling(probs, num_samples, replacement) ==
    IF DOMAIN probs = {} THEN {Raise}
    ELSE {Drawn(q) : q \in SeqsOfLen(DOMAIN probs, num_samples)}

\* torch.multinomial(probs, num_samples, replacement): the outcomes it can have.
\* It raises on an empty, NaN, inf or all-zero probability vector, and without
\* replacement when num_samples exceeds the number of categories. Without
\* replacement the draws are distinct; categories of probability zero are drawn
\* only once the positive ones are used up (or the call raises, by the build).
Multinomial(probs, num_samples, replacement) ==
    LET cats == DOMAIN probs
        pos == {i \in cats : probs[i] = "pos"}
    IN  IF \/ cats = {}
           \/ \E i \in cats : probs[i] \in {"nan", "inf"}
           \/ pos = {}
        THEN {Raise}
        ELSE IF replacement
        THEN {Drawn(q) : q \in SeqsOfLen(pos, num_samples)}
        ELSE IF num_samples > Cardinality(cats)
        THEN {Raise}
        ELSE IF num_samples <= Cardinality(pos)
        THEN {Drawn(q) : q \in {r \in SeqsOfLen(pos, num_samples) : Injective(r)}}
        ELSE {Raise} \cup
             {Drawn(q) : q \in {r \in SeqsOfLen(cats, num_samples) :
                 /\ Injective(r)
                 /\ \A i \in pos : \E j \in DOMAIN r : r[j] = i
                 /\ \A j \in DOMAIN r : r[j] \in pos \/ j > Cardinality(pos)}}

\* variant of DrawIndices: the policy flag is ignored
DrawIndicesAlwaysReplacing(batch_size) ==
    Multinomial(CategoricalProbs(LogWSlice), batch_size, TRUE)

\* the draw of sample: Categorical(...).sample_n(batch_size) with replacement,
\* torch.multinomial(sample_probs, batch_size, replacement=False) without
DrawIndices(batch_size) ==
    IF sample_with_replacement
    THEN Multinomial(CategoricalProbs(LogWSlice), batch_size, TRUE)
    ELSE IF MaxIndex = 0 THEN {Raise}
    ELSE Multinomial(SampleProbs(LogWSlice), batch_size, FALSE)

\* tensor[indices]: a new tensor holding the elements at indices
Gather(arr, idxs) == [j \in DOMAIN idxs |-> arr[idxs[j]]]

\* variant of SampleResults: can_sample is not tested
SampleResultsUnguarded(batch_size) == DrawIndices(batch_size)

\* sample(batch_size): what it can return. It raises when can_sample is false.
SampleResults(batch_size) ==
    IF ~can_sample THEN {NotReady} ELSE DrawIndices(batch_size)

SampleReturn(op, batch_size, n_batches, r, dataset) ==
    IF r.ok
    THEN Call(op, TRUE, batch_size, Gather(buffer.x, r.indices),
              Gather(buffer.log_w, r.indices), Gather(buffer.log_q_old, r.indices),
              r.indices, n_batches, dataset)
    ELSE Raised(op, batch_size, n_batches, r.error)

\* variant of SampleEffect: the max is subtracted from the stored log_w in place
SampleEffectShiftsInPlace ==
    /\ buffer' = [buffer EXCEPT !.log_w =
                     [s \in Slots |-> IF s < MaxIndex
                                      THEN fadd(buffer.log_w[s], fneg(TorchMax(LogWSlice)))
                                      ELSE buffer.log_w[s]]]
    /\ UNCHANGED flags

\* what sample leaves of the buffer's own state
SampleEffect == UNCHANGED <<buffer, flags>>

Sample ==
    /\ pc = "ready"
    /\ \E batch_size \in 1 .. MaxBatch : \E r \in SampleResults(batch_size) :
          last' = SampleReturn("sample", batch_size, 0, r, <<>>)
    /\ SampleEffect
    /\ UNCHANGED <<config, held, threads, pc, file, total, written, order, nops>>

\* sample or sample_n_batches called on the buffer while __init__ is still in
\* its fill loop, that is before can_sample is true
SampleBeforeReady ==
    /\ pc = "init"
    /\ \E op \in {"sample", "sample_n_batches"}, batch_size \in 1 .. MaxBatch :
          \E r \in SampleResults(batch_size) :
             last' = SampleReturn(op, batch_size, IF op = "sample" THEN 0 ELSE 1, r, <<>>)
    /\ SampleEffect
    /\ UNCHANGED <<config, held, threads, pc, file, total, written, order, nops>>

\* variant of TorchChunk: pieces of chunks elements each, as torch.split cuts
TorchChunkAsSplit(t, chunks) ==
    LET len == Len(t)
        count == (len + chunks - 1) \div chunks
    IN  [c \in 1 .. count |->
            SubSeq(t, (c - 1) * chunks + 1, IF c * chunks < len THEN c * chunks ELSE len)]

\* torch.chunk(t, chunks): pieces of ceil(len / chunks) elements, the last one
\* shorter when the length does not divide
TorchChunk(t, chunks) ==
    LET len == Len(t)
        size == (len + chunks - 1) \div chunks
        count == IF size = 0 THEN 0 ELSE (len + size - 1) \div size
    IN  [c \in 1 .. count |->
            SubSeq(t, (c - 1) * size + 1, IF c * size < len THEN c * size ELSE len)]

\* the list sample_n_batches returns: the chunks of the four tensors, zipped
Dataset(x, log_w, log_q_old, indices, n_batches) ==
    LET xb == TorchChunk(x, n_batches)
        wb == TorchChunk(log_w, n_batches)
        qb == TorchChunk(log_q_old, n_batches)
        ib == TorchChunk(indices, n_batches)
    IN  [c \in DOMAIN xb |->
            [x |-> xb[c], log_w |-> wb[c], log_q_old |-> qb[c], indices |-> ib[c]]]

SampleNBatches ==
    /\ pc = "ready"
    /\ \E batch_size \in 1 .. MaxBatch, n_batches \in 1 .. MaxBatch :
          /\ \E r \in SampleResults(batch_size * n_batches) :
                last' = SampleReturn("sample_n_batches", batch_size, n_batches, r,
                            IF r.ok
                            THEN Dataset(Gather(buffer.x, r.indices),
                                         Gather(buffer.log_w, r.indices),
                                         Gather(buffer.log_q_old, r.indices),
                                         r.indices, n_batches)
                            ELSE <<>>)
    /\ SampleEffect
    /\ UNCHANGED <<config, held, threads, pc, file, total, written, order, nops>>

\* ---------------------------------------------------------------- adjust
\* One co-indexed entry of an adjust call, at position j of its three arguments:
\* a well-formed correction, one with an infinite log_w_adjustment, one with a
\* NaN log_q; the index may name any slot.
Corrections(j) ==
    {[log_w_adjustment |-> Fin(j), log_q |-> Fin(j + 4)],
     [log_w_adjustment |-> PInf, log_q |-> Fin(j + 4)],
     [log_w_adjustment |-> Fin(j), log_q |-> NaN]}

AdjustEntries(j) ==
    {[log_w_adjustment |-> c.log_w_adjustment, log_q |-> c.log_q, index |-> s] :
        c \in Corrections(j), s \in Slots}

\* the three co-indexed arguments of an adjust call of m entries
AdjustArgs(m) == {a \in [1 .. m -> UNION {AdjustEntries(j) : j \in 1 .. m}] :
                    \A j \in 1 .. m : a[j] \in AdjustEntries(j)}

\* variant of ValidAdjustment: log_q is not tested for NaN
ValidAdjustmentInfOnly(e) == ~isinf(e.log_w_adjustment)

\* valid_adjustment = ~torch.isinf(log_w_adjustment) & ~torch.isnan(log_q)
ValidAdjustment(e) == ~isinf(e.log_w_adjustment) /\ ~isnan(e.log_q)

\* variant of Filtered: the mask is not applied
FilteredNothing(entries) == entries

\* t[valid_adjustment] for the three arguments at once
Filtered(entries) == SelectSeq(entries, ValidAdjustment)

\* variant of AdjustedLogW: the adjustment replaces log_w instead of being added
AdjustedLogWOverwritten(kept) ==
    IndexPut(buffer.log_w, Field(kept, "index"), Field(kept, "log_w_adjustment"))

\* self.buffer.log_w[indices] += log_w_adjustment: the old values are gathered,
\* the adjustment is added, and the sums are put back at indices
AdjustedLogW(kept) ==
    LET indices == Field(kept, "index")
        old == Gather(buffer.log_w, indices)
        sums == [j \in DOMAIN kept |-> fadd(old[j], kept[j].log_w_adjustment)]
    IN  IndexPut(buffer.log_w, indices, sums)

\* self.buffer.log_q_old[indices] = log_q
AdjustedLogQ(kept) == IndexPut(buffer.log_q_old, Field(kept, "index"), Field(kept, "log_q"))

Adjust ==
    /\ pc = "ready"
    /\ nops < MaxOps
    /\ \E m \in 0 .. MaxBatch : \E entries \in AdjustArgs(m) :
          /\ \E bw \in AdjustedLogW(Filtered(entries)), bq \in AdjustedLogQ(Filtered(entries)) :
                buffer' = [x |-> buffer.x, log_w |-> bw, log_q_old |-> bq]
          /\ last' = Call("adjust", TRUE, m, <<>>, Field(entries, "log_w_adjustment"),
                          Field(entries, "log_q"), Field(entries, "index"), 0, <<>>)
    /\ nops' = nops + 1
    /\ UNCHANGED <<config, held, threads, flags, pc, file, total, written, order>>

\* ----------------------------------------------------------- save / load
\* to_save: the three arrays whole, current_index, is_full and can_sample (and,
\* for the bookkeeping of which slots hold inserted data, the written slots and
\* their order of insertion)
ToSave ==
    [x |-> buffer.x, log_w |-> buffer.log_w, log_q_old |-> buffer.log_q_old,
     current_index |-> current_index, is_full |-> is_full, can_sample |-> can_sample,
     written |-> written, order |-> order]

Save ==
    /\ pc = "ready"
    /\ nops < MaxOps
    /\ file' = <<ToSave>>
    /\ last' = Call("save", TRUE, 0, <<>>, <<>>, <<>>, <<>>, 0, <<>>)
    /\ nops' = nops + 1
    /\ UNCHANGED <<config, held, threads, buffer, flags, pc, total, written, order>>

\* a file at the path that a buffer of another max_length n has saved, after
\* it was filled with copies of one record
OtherFile(n) ==
    [x |-> [s \in 0 .. (n - 1) |-> 1],
     log_w |-> [s \in 0 .. (n - 1) |-> Fin(0)],
     log_q_old |-> [s \in 0 .. (n - 1) |-> Fin(1)],
     current_index |-> 0, is_full |-> TRUE, can_sample |-> TRUE,
     written |-> 0 .. (n - 1), order |-> [j \in 1 .. n |-> j - 1]]

\* save called on another buffer, of a different max_length, with the same path
SaveOther ==
    /\ pc = "ready"
    /\ nops < MaxOps
    /\ \E n \in (1 .. (MaxLength + 1)) \ {max_length} : file' = <<OtherFile(n)>>
    /\ last' = Call("other.save", TRUE, 0, <<>>, <<>>, <<>>, <<>>, 0, <<>>)
    /\ nops' = nops + 1
    /\ UNCHANGED <<config, held, threads, buffer, flags, pc, total, written, order>>

\* the length of the arrays in a file
FileLength(old_buffer) == Cardinality(DOMAIN old_buffer.x)

\* tensor[torch.arange(self.max_length)] = value takes a value whose leading
\* length is max_length, or 1 (which is broadcast to every slot); any other
\* length raises
Broadcastable(old_buffer) ==
    FileLength(old_buffer) = max_length \/ FileLength(old_buffer) = 1

\* one array after load: every slot overwritten
LoadedArray(arr) ==
    [s \in Slots |-> IF Cardinality(DOMAIN arr) = 1 THEN arr[0] ELSE arr[s]]

\* the buffer after load
LoadedBuffer(old_buffer) ==
    [x |-> LoadedArray(old_buffer.x),
     log_w |-> LoadedArray(old_buffer.log_w),
     log_q_old |-> LoadedArray(old_buffer.log_q_old)]

\* self.is_full = old_buffer['is_full']
LoadedIsFull(old_buffer) == old_buffer.is_full

\* self.can_sample = old_buffer['can_sample']
LoadedCanSample(old_buffer) == old_buffer.can_sample

\* variant of LoadedCurrentIndex: the cursor is not restored
LoadedCurrentIndexKept(old_buffer) == current_index

\* self.current_index = old_buffer['current_index']
LoadedCurrentIndex(old_buffer) == old_buffer.current_index

\* the slots that hold inserted data after load
LoadedWritten(old_buffer) ==
    IF FileLength(old_buffer) = max_length THEN old_buffer.written
    ELSE IF 0 \in old_buffer.written THEN Slots ELSE {}

\* the written slots by age after load
LoadedOrder(old_buffer) ==
    IF FileLength(old_buffer) = max_length THEN old_buffer.order
    ELSE IF 0 \in old_buffer.written THEN [j \in 1 .. max_length |-> j - 1] ELSE <<>>

\* load of the file at the path; torch.load raises when there is none, and the
\* first array assignment raises, before anything is written, when the file's
\* arrays cannot be broadcast to max_length
Load ==
    /\ pc = "ready"
    /\ nops < MaxOps
    /\ IF file = <<>>
       THEN /\ last' = Raised("load", 0, 0, "FileNotFoundError")
            /\ UNCHANGED <<buffer, flags, written, order>>
       ELSE IF ~Broadcastable(file[1])
       THEN /\ last' = Raised("load", 0, 0, "RuntimeError")
            /\ UNCHANGED <<buffer, flags, written, order>>
       ELSE /\ buffer' = LoadedBuffer(file[1])
            /\ current_index' = LoadedCurrentIndex(file[1])
            /\ is_full' = LoadedIsFull(file[1])
            /\ can_sample' = LoadedCanSample(file[1])
            /\ written' = LoadedWritten(file[1])
            /\ order' = LoadedOrder(file[1])
            /\ last' = Call("load", TRUE, 0, <<>>, <<>>, <<>>, <<>>, 0, <<>>)
    /\ nops' = nops + 1
    /\ UNCHANGED <<config, held, threads, pc, file, total>>

Next ==
    \/ Construct \/ Fill \/ Add \/ AddOverflow
    \/ SampleBeforeReady \/ Sample \/ SampleNBatches
    \/ Adjust \/ Save \/ SaveOther \/ Load

Spec == Init /\ [][Next]_vars

\* construction and add alone
NextAdd == Construct \/ Fill \/ Add \/ AddOverflow
SpecAdd == Init /\ [][NextAdd]_vars

\* a buffer that is filled and sampled
NextSample == Construct \/ Fill \/ Add \/ SampleBeforeReady \/ Sample \/ SampleNBatches
SpecSample == Init /\ [][NextSample]_vars

\* a buffer that is filled and adjusted
NextAdjust == Construct \/ Fill \/ Add \/ Adjust
SpecAdjust == Init /\ [][NextAdjust]_vars

\* a buffer of max_length 6 and min_sample_length 3 whose initial sampler, and
\* every later add, hands over batches of two records
InitScenario ==
    /\ max_length = 6
    /\ min_sample_length = 3
    /\ sample_with_replacement \in BOOLEAN
    /\ buffer = ZeroBuffer(max_length)
    /\ current_index = 0
    /\ is_full = FALSE
    /\ can_sample = FALSE
    /\ pc = "new"
    /\ file = <<>>
    /\ last = NoCall
    /\ total = 0
    /\ written = {}
    /\ order = <<>>
    /\ nops = 0
    /\ threads = NoThreads
    /\ held = NoHeld

\* one turn of the fill loop with a batch of two records
FillScenario ==
    /\ pc = "init"
    /\ can_sample = FALSE
    /\ \E batch \in SeqsOfLen(Records, 2) : AddBody(batch)
    /\ pc' = IF can_sample' THEN "ready" ELSE "init"
    /\ UNCHANGED <<config, held, threads, file, nops>>

\* add of a batch of two records
AddScenario ==
    /\ pc = "ready"
    /\ \E batch \in SeqsOfLen(Records, 2) : AddBody(batch)
    /\ UNCHANGED <<config, held, threads, pc, file, nops>>

NextScenario == Construct \/ FillScenario \/ AddScenario
SpecScenario == InitScenario /\ [][NextScenario]_vars

\* --------------------------------------------------------- the fill loop
\* one turn of the fill loop in which initial_sampler returns an empty batch
FillEmpty ==
    /\ pc = "init"
    /\ can_sample = FALSE
    /\ AddBody(<<>>)
    /\ pc' = IF can_sample' THEN "ready" ELSE "init"
    /\ UNCHANGED <<config, held, threads, file, nops>>

\* one turn of the fill loop in which initial_sampler returns at least one
\* record (and, beyond what add is specified for, up to max_length + 1)
FillNonEmpty ==
    /\ pc = "init"
    /\ can_sample = FALSE
    /\ \E b \in 1 .. (max_length + 1) : \E batch \in SeqsOfLen(Records, b) : AddBody(batch)
    /\ pc' = IF can_sample' THEN "ready" ELSE "init"
    /\ UNCHANGED <<config, held, threads, file, nops>>

\* __init__ alone. The loop is a plain while loop in one control flow: it goes
\* on as long as its test holds, and a sampler that returns records at all
\* does not return empty batches for ever.
NextFill == Construct \/ FillEmpty \/ FillNonEmpty
SpecFill == Init /\ [][NextFill]_vars /\ WF_vars(FillNonEmpty)

\* ------------------------------------------- add called from two threads
\* Two threads call add on a constructed buffer, each with a batch of its own.
\* A thread switch can fall between any two statements of add, so every
\* statement (lines 62 to 70) is a step. The buffer has no lock; the caller
\* either guards each call with one lock of its own (locked) or does not.
Threads == 1 .. 2

\* a thread at the call of add with its batch: indices and new_index are the
\* locals of add
ThreadAt(at, batch, indices, new_index) ==
    [at |-> at, batch |-> batch, indices |-> indices, new_index |-> new_index]

\* thread t moves on, its locals as given
Moved(t, at, indices, new_index) ==
    [threads EXCEPT !.th[t] = ThreadAt(at, threads.th[t].batch, indices, new_index)]

\* thread t moves on, its locals kept
Goes(t, at) == Moved(t, at, threads.th[t].indices, threads.th[t].new_index)

\* thread t stands at statement at of add
At(t, at) == threads.th # <<>> /\ threads.th[t].at = at

\* the two threads are started, each about to call add with a batch of at
\* least one record, the two batches together no longer than max_length
Spawn ==
    /\ pc = "ready"
    /\ threads = NoThreads
    /\ \E locked \in BOOLEAN, b1 \in 1 .. max_length, b2 \in 1 .. max_length :
          /\ b1 + b2 <= max_length
          /\ \E batch1 \in SeqsOfLen(Records, b1), batch2 \in SeqsOfLen(Records, b2) :
                threads' = [locked |-> locked, holder |-> 0,
                            start |-> current_index, start_full |-> is_full,
                            th |-> <<ThreadAt("call", batch1, <<>>, 0),
                                     ThreadAt("call", batch2, <<>>, 0)>>]
    /\ UNCHANGED <<config, held, buffer, flags, pc, file, last, total, written, order, nops>>

\* thread t enters add; under the caller's lock it waits until the lock is free
Enter ==
    \E t \in Threads :
        /\ At(t, "call")
        /\ threads.locked => threads.holder = 0
        /\ threads' = [Goes(t, "l62") EXCEPT !.holder = IF threads.locked THEN t ELSE 0]
        /\ UNCHANGED <<config, held, buffer, flags, pc, file, last, total, written, order, nops>>

\* indices = (torch.arange(batch_size) + self.current_index) % self.max_length
T62 ==
    \E t \in Threads :
        /\ At(t, "l62")
        /\ threads' = Moved(t, "l63", AddIndices(Len(threads.th[t].batch)),
                            threads.th[t].new_index)
        /\ UNCHANGED <<config, held, buffer, flags, pc, file, last, total, written, order, nops>>

\* self.buffer.x[indices] = x
T63 ==
    \E t \in Threads :
        /\ At(t, "l63")
        /\ \E bx \in IndexPut(buffer.x, threads.th[t].indices, Field(threads.th[t].batch, "x")) :
              buffer' = [buffer EXCEPT !.x = bx]
        /\ threads' = Goes(t, "l64")
        /\ UNCHANGED <<config, held, flags, pc, file, last, total, written, order, nops>>

\* self.buffer.log_w[indices] = log_w
T64 ==
    \E t \in Threads :
        /\ At(t, "l64")
        /\ \E bw \in IndexPut(buffer.log_w, threads.th[t].indices,
                              Field(threads.th[t].batch, "log_w")) :
              buffer' = [buffer EXCEPT !.log_w = bw]
        /\ threads' = Goes(t, "l65")
        /\ UNCHANGED <<config, held, flags, pc, file, last, total, written, order, nops>>

\* self.buffer.log_q_old[indices] = log_q_old
T65 ==
    \E t \in Threads :
        /\ At(t, "l65")
        /\ \E bq \in IndexPut(buffer.log_q_old, threads.th[t].indices,
                              Field(threads.th[t].batch, "log_q_old")) :
              buffer' = [buffer EXCEPT !.log_q_old = bq]
        /\ written' = written \cup {threads.th[t].indices[j] : j \in DOMAIN threads.th[t].indices}
        /\ order' = OrderAfter(threads.th[t].indices)
        /\ threads' = Goes(t, "l66")
        /\ UNCHANGED <<config, held, flags, pc, file, last, total, nops>>

\* new_index = self.current_index + batch_size
T66 ==
    \E t \in Threads :
        /\ At(t, "l66")
        /\ threads' = Moved(t, "l67", threads.th[t].indices,
                            NewIndex(Len(threads.th[t].batch)))
        /\ UNCHANGED <<config, held, buffer, flags, pc, file, last, total, written, order, nops>>

\* if not self.is_full:
T67 ==
    \E t \in Threads :
        /\ At(t, "l67")
        /\ threads' = Goes(t, IF ~is_full THEN "l68" ELSE "l70")
        /\ UNCHANGED <<config, held, buffer, flags, pc, file, last, total, written, order, nops>>

\* self.is_full = new_index >= self.max_length
T68 ==
    \E t \in Threads :
        /\ At(t, "l68")
        /\ is_full' = (threads.th[t].new_index >= max_length)
        /\ threads' = Goes(t, "l69")
        /\ UNCHANGED <<config, held, buffer, current_index, can_sample, pc, file, last, total,
                       written, order, nops>>

\* self.can_sample = new_index >= self.min_sample_length
T69 ==
    \E t \in Threads :
        /\ At(t, "l69")
        /\ can_sample' = (threads.th[t].new_index >= min_sample_length)
        /\ threads' = Goes(t, "l70")
        /\ UNCHANGED <<config, held, buffer, current_index, is_full, pc, file, last, total,
                       written, order, nops>>

\* variant of ThreadCursor: new_index is stored as it is
ThreadCursorNoWrap(t) == threads.th[t].new_index

\* new_index % self.max_length, of thread t's new_index
ThreadCursor(t) == threads.th[t].new_index % max_length

\* self.current_index = new_index % self.max_length; add returns, and the
\* caller gives the lock back
T70 ==
    \E t \in Threads :
        /\ At(t, "l70")
        /\ current_index' = ThreadCursor(t)
        /\ threads' = [Goes(t, "done") EXCEPT !.holder = 0]
        /\ total' = TotalAfter(Len(threads.th[t].batch))
        /\ last' = Call("add", TRUE, Len(threads.th[t].batch),
                        Field(threads.th[t].batch, "x"), Field(threads.th[t].batch, "log_w"),
                        Field(threads.th[t].batch, "log_q_old"), threads.th[t].indices, 0, <<>>)
        /\ UNCHANGED <<config, held, buffer, is_full, can_sample, pc, file, written, order, nops>>

NextThreads ==
    \/ Construct \/ Fill \/ Spawn \/ Enter
    \/ T62 \/ T63 \/ T64 \/ T65 \/ T66 \/ T67 \/ T68 \/ T69 \/ T70

SpecThreads == Init /\ [][NextThreads]_vars

\* ------------------------------------------- the add, sample, adjust loop
\* The caller's loop: add of a batch of at least one record, sample, and adjust
\* on the indices the last sample returned, in any order and any number of
\* times. The caller keeps the indices of its last sample until the next one.
HeldSlots == {held.indices[j] : j \in DOMAIN held.indices}

LoopAdd ==
    /\ pc = "ready"
    /\ \E b \in 1 .. max_length : \E batch \in SeqsOfLen(Records, b) :
          /\ AddBody(batch)
          /\ held' = [held EXCEPT !.stale =
                         @ \cup ({AddIndices(b)[j] : j \in 1 .. b} \cap HeldSlots)]
    /\ UNCHANGED <<config, threads, pc, file, nops>>

LoopSample ==
    /\ pc = "ready"
    /\ \E batch_size \in 1 .. MaxBatch : \E r \in SampleResults(batch_size) :
          /\ last' = SampleReturn("sample", batch_size, 0, r, <<>>)
          /\ held' = IF r.ok THEN [indices |-> r.indices, stale |-> {}] ELSE held
    /\ SampleEffect
    /\ UNCHANGED <<config, threads, pc, file, total, written, order, nops>>

\* the body of adjust, for its three co-indexed arguments
AdjustBody(entries) ==
    /\ \E bw \in AdjustedLogW(Filtered(entries)), bq \in AdjustedLogQ(Filtered(entries)) :
          buffer' = [x |-> buffer.x, log_w |-> bw, log_q_old |-> bq]
    /\ last' = Call("adjust", TRUE, Len(entries), <<>>, Field(entries, "log_w_adjustment"),
                    Field(entries, "log_q"), Field(entries, "index"), 0, <<>>)

\* adjust called with the indices of the caller's last sample
LoopAdjust ==
    /\ pc = "ready"
    /\ nops < MaxOps
    /\ held.indices # <<>>
    /\ \E entries \in AdjustArgs(Len(held.indices)) :
          /\ Field(entries, "index") = held.indices
          /\ AdjustBody(entries)
    /\ nops' = nops + 1
    /\ UNCHANGED <<config, held, threads, flags, pc, file, total, written, order>>

\* the self-check under __main__: batch_size = 3 and length = 6
main_batch_size == 3
length == 2 * main_batch_size

\* what initial_sampler and the loop hand to add: ones, zeros, ones. In the
\* self-check log_q_old is counted in tenths, so that + 0.1 is + Fin(1).
MainBatch ==
    [i \in 1 .. main_batch_size |-> [x |-> 1, log_w |-> Fin(0), log_q_old |-> Fin(10)]]

\* the state at line 146, the call of the constructor
InitMain ==
    /\ max_length = length
    /\ min_sample_length = length \div 2
    /\ sample_with_replacement = FALSE
    /\ buffer = ZeroBuffer(max_length)
    /\ current_index = 0
    /\ is_full = FALSE
    /\ can_sample = FALSE
    /\ pc = "main"
    /\ file = <<>>
    /\ last = NoCall
    /\ total = 0
    /\ written = {}
    /\ order = <<>>
    /\ nops = 0
    /\ threads = NoThreads
    /\ held = NoHeld

\* line 146: the constructor's assertion
MainConstruct ==
    /\ pc = "main"
    /\ IF AssertConfiguration
       THEN /\ pc' = "main_fill"
            /\ last' = Call("__init__", TRUE, 0, <<>>, <<>>, <<>>, <<>>, 0, <<>>)
       ELSE /\ pc' = "main_failed"
            /\ last' = Raised("__init__", 0, 0, "AssertionError")
    /\ UNCHANGED <<config, held, threads, buffer, flags, file, total, written, order, nops>>

\* line 146: one turn of the constructor's fill loop
MainFill ==
    /\ pc = "main_fill"
    /\ can_sample = FALSE
    /\ AddBody(MainBatch)
    /\ pc' = IF can_sample' THEN "l149" ELSE "main_fill"
    /\ UNCHANGED <<config, held, threads, file, nops>>

\* line 149: buffer.add(ones, zeros, ones)
Main149 ==
    /\ pc = "l149"
    /\ AddBody(MainBatch)
    /\ pc' = "l150"
    /\ UNCHANGED <<config, held, threads, file, nops>>

\* line 150: x, log_w, log_q_old, indices = buffer.sample(batch_size); an
\* exception ends the program
Main150 ==
    /\ pc = "l150"
    /\ \E r \in SampleResults(main_batch_size) :
          /\ last' = SampleReturn("sample", main_batch_size, 0, r, <<>>)
          /\ pc' = IF r.ok THEN "l151" ELSE "main_failed"
    /\ SampleEffect
    /\ UNCHANGED <<config, held, threads, file, total, written, order, nops>>

\* the arguments of line 151: log_w + 1, log_q_old + 0.1 and indices, of the
\* tensors line 150 returned
MainEntries ==
    [j \in DOMAIN last.indices |->
        [log_w_adjustment |-> fadd(last.log_w[j], Fin(1)),
         log_q |-> fadd(last.log_q_old[j], Fin(1)),
         index |-> last.indices[j]]]

\* line 151: buffer.adjust(log_w + 1, log_q_old + 0.1, indices), and the loop
\* goes round (its count of 100 turns is not kept)
Main151 ==
    /\ pc = "l151"
    /\ AdjustBody(MainEntries)
    /\ pc' = "l149"
    /\ UNCHANGED <<config, held, threads, flags, file, total, written, order, nops>>

\* either a buffer in the caller's loop, or the self-check
InitLoop == Init \/ InitMain

NextLoop ==
    \/ Construct \/ Fill \/ LoopAdd \/ LoopSample \/ LoopAdjust
    \/ MainConstruct \/ MainFill \/ Main149 \/ Main150 \/ Main151

SpecLoop == InitLoop /\ [][NextLoop]_vars

\* ------------------------------------------------------------------ claims
\* the live window size sample uses, spelled out
LiveWindow == IF is_full THEN max_length ELSE current_index

\* C1: add of a batch of b <= max_length records writes record i (x, log_w and
\* log_q_old together) to slot (current_index + i) mod max_length for every i
\* in [0, b), leaves every other slot unchanged, and sets current_index to
\* (current_index + b) mod max_length.
C1_AddWritesBatchAtCursor ==
    [][(last'.op = "add" /\ last'.batch_size <= max_length) =>
        LET b == last'.batch_size
            slot(i) == (current_index + i) % max_length
            target == {slot(i) : i \in 0 .. (b - 1)}
        IN  /\ Len(last'.x) = b
            /\ \A i \in 0 .. (b - 1) :
                  /\ buffer'.x[slot(i)] = last'.x[i + 1]
                  /\ buffer'.log_w[slot(i)] = last'.log_w[i + 1]
                  /\ buffer'.log_q_old[slot(i)] = last'.log_q_old[i + 1]
            /\ \A s \in Slots \ target :
                  /\ buffer'.x[s] = buffer.x[s]
                  /\ buffer'.log_w[s] = buffer.log_w[s]
                  /\ buffer'.log_q_old[s] = buffer.log_q_old[s]
            /\ current_index' = (current_index + b) % max_length]_vars

\* an add of at least two records that wrapped past the end of the arrays
C1_Witness ==
    /\ last.op = "add"
    /\ last.batch_size >= 2
    /\ last.batch_size <= max_length
    /\ 0 < current_index
    /\ current_index < last.batch_size

\* C2: when construction returns, can_sample is true and the live window
\* (max_length if is_full, else current_index) holds at least
\* min_sample_length records, all of them written by add.
C2_FillInvariant ==
    [][(pc = "init" /\ pc' = "ready") =>
        /\ can_sample'
        /\ LiveWindow' >= min_sample_length
        /\ \A s \in 0 .. (LiveWindow' - 1) : s \in written']_vars

\* construction has just returned with exactly min_sample_length records
C2_Witness ==
    /\ pc = "ready"
    /\ min_sample_length >= 1
    /\ ~is_full
    /\ total = min_sample_length
    /\ current_index = min_sample_length

\* C3: after any sequence of add calls, is_full is true exactly when the
\* number of records inserted so far is >= max_length; while is_full is false
\* current_index equals that number, and once is_full is true the live window
\* size equals max_length.
C3_FullIffCapacityInserted ==
    /\ is_full <=> total >= max_length
    /\ ~is_full => current_index = total
    /\ is_full => MaxIndex = max_length

\* the buffer has been filled and the cursor has gone round
C3_Witness ==
    /\ is_full
    /\ last.op = "add"
    /\ last.batch_size = 1
    /\ current_index = 0

\* C4, as stated: once is_full is true it is true in every later state, after
\* any sequence of add, sample, sample_n_batches, adjust, save and load calls.
C4_Original == [][is_full => is_full']_vars

\* C4, amended: once is_full is true it stays true across add, sample,
\* sample_n_batches, adjust and save; load sets is_full to the value saved in
\* the file.
C4_FullStaysFullExceptLoad ==
    [][/\ (is_full /\ last'.op # "load") => is_full'
       /\ (last'.op = "load" /\ last'.ok) => is_full' = file[1].is_full]_vars

\* a full buffer took one more record and is still full
C4_Witness ==
    /\ is_full
    /\ max_length >= 2
    /\ last.op = "add"
    /\ last.batch_size = 1
    /\ current_index = 1

C6_DistinctWithoutReplacement ==
    (/\ last.op = "sample"
     /\ last.ok
     /\ ~sample_with_replacement
     /\ last.batch_size <= LiveWindow)
    => \A i, j \in 1 .. Len(last.indices) :
          i # j => last.indices[i] # last.indices[j]

\* a draw of two or more indices without replacement
C6_Witness ==
    /\ last.op = "sample"
    /\ last.ok
    /\ ~sample_with_replacement
    /\ Len(last.indices) >= 2

\* C7: a sample(batch_size) that returns gives exactly batch_size indices, each
\* in [0, n) with n = max_length if is_full else current_index, under both
\* policies, and the returned x, log_w and log_q_old are the stored values at
\* those indices, position by position.
C7_SampleReturnsLiveRecords ==
    (last.op = "sample" /\ last.ok) =>
        /\ Len(last.indices) = last.batch_size
        /\ Len(last.x) = last.batch_size
        /\ Len(last.log_w) = last.batch_size
        /\ Len(last.log_q_old) = last.batch_size
        /\ \A j \in 1 .. last.batch_size :
              /\ last.indices[j] \in 0 .. (LiveWindow - 1)
              /\ last.x[j] = buffer.x[last.indices[j]]
              /\ last.log_w[j] = buffer.log_w[last.indices[j]]
              /\ last.log_q_old[j] = buffer.log_q_old[last.indices[j]]

\* a draw with replacement from a buffer that is not yet full
C7_Witness ==
    /\ last.op = "sample"
    /\ last.ok
    /\ sample_with_replacement
    /\ ~is_full
    /\ last.batch_size >= 2

\* C8: sample and sample_n_batches leave the three arrays, current_index,
\* is_full and can_sample as they were, whether the call returns or raises.
C8_SampleLeavesBufferUnchanged ==
    [][last'.op \in {"sample", "sample_n_batches"} =>
        /\ buffer' = buffer
        /\ current_index' = current_index
        /\ is_full' = is_full
        /\ can_sample' = can_sample]_vars

\* a sample_n_batches call that raised
C8_Witness ==
    /\ last.op = "sample_n_batches"
    /\ ~last.ok

\* the entries of the last adjust call, co-indexed
Survives(j) == ~isinf(last.log_w[j]) /\ ~isnan(last.log_q_old[j])
Entries == 1 .. Len(last.indices)

\* an index vector some sample call can return from the current buffer
Returnable(q) ==
    /\ Len(q) \in 1 .. MaxBatch
    /\ \E r \in SampleResults(Len(q)) : r.ok /\ r.indices = q

\* C9, as stated: for every entry j of an adjust call that survives filtering,
\* after the call slot indices[j] has log_w equal to its previous value plus
\* log_w_delta[j] and log_q_old equal to log_q_new[j], for any index vector a
\* sample call can return, under either policy.
C9_Original ==
    [][(last'.op = "adjust" /\ Returnable(last'.indices)) =>
        \A j \in Entries' : Survives(j)' =>
            /\ buffer'.log_w[last'.indices[j]] =
                  fadd(buffer.log_w[last'.indices[j]], last'.log_w[j])
            /\ buffer'.log_q_old[last'.indices[j]] = last'.log_q_old[j]]_vars

\* C9, amended: the same, for every surviving entry whose slot is named by no
\* other surviving entry of the call.
C9_AdjustAppliesSurvivingEntries ==
    [][last'.op = "adjust" =>
        \A j \in Entries' :
            (/\ Survives(j)'
             /\ \A i \in Entries' :
                   (i # j /\ Survives(i)') => last'.indices[i] # last'.indices[j])
            => /\ buffer'.log_w[last'.indices[j]] =
                     fadd(buffer.log_w[last'.indices[j]], last'.log_w[j])
               /\ buffer'.log_q_old[last'.indices[j]] = last'.log_q_old[j]]_vars

\* an adjust call of two surviving entries on two slots
C9_Witness ==
    /\ last.op = "adjust"
    /\ Len(last.indices) = 2
    /\ Survives(1)
    /\ Survives(2)
    /\ last.indices[1] # last.indices[2]

\* C10: an entry of an adjust call whose log_w_delta is infinite or whose
\* log_q_new is NaN is dropped with its index: the slot it names keeps its
\* log_w and log_q_old unless a surviving entry names the same slot, the call
\* does not fail, and every slot a surviving entry names receives the
\* correction of a surviving entry that names it.
C10_AdjustDropsMalformedEntries ==
    [][last'.op = "adjust" =>
        /\ last'.ok
        /\ \A j \in Entries' :
              (/\ ~Survives(j)'
               /\ \A i \in Entries' : Survives(i)' => last'.indices[i] # last'.indices[j])
              => /\ buffer'.log_w[last'.indices[j]] = buffer.log_w[last'.indices[j]]
                 /\ buffer'.log_q_old[last'.indices[j]] = buffer.log_q_old[last'.indices[j]]
        /\ \A j \in Entries' : Survives(j)' =>
              /\ \E i \in Entries' :
                    /\ Survives(i)'
                    /\ last'.indices[i] = last'.indices[j]
                    /\ buffer'.log_w[last'.indices[j]] =
                          fadd(buffer.log_w[last'.indices[j]], last'.log_w[i])
              /\ \E i \in Entries' :
                    /\ Survives(i)'
                    /\ last'.indices[i] = last'.indices[j]
                    /\ buffer'.log_q_old[last'.indices[j]] = last'.log_q_old[i]]_vars

\* an adjust call with one dropped entry and one applied entry, on two slots
C10_Witness ==
    /\ last.op = "adjust"
    /\ Len(last.indices) = 2
    /\ ~Survives(1)
    /\ Survives(2)
    /\ last.indices[1] # last.indices[2]
    /\ buffer.log_q_old[last.indices[2]] = last.log_q_old[2]

\* the slots that surviving entries of the last adjust call name
SurvivingSlots == {last.indices[j] : j \in {i \in Entries : Survives(i)}}

\* C11: adjust changes nothing except log_w and log_q_old at the slots named
\* by surviving indices: current_index, is_full, can_sample, every stored x,
\* and log_w and log_q_old at all other slots are unchanged.
C11_AdjustFrame ==
    [][last'.op = "adjust" =>
        /\ current_index' = current_index
        /\ is_full' = is_full
        /\ can_sample' = can_sample
        /\ buffer'.x = buffer.x
        /\ \A s \in Slots \ SurvivingSlots' :
              /\ buffer'.log_w[s] = buffer.log_w[s]
              /\ buffer'.log_q_old[s] = buffer.log_q_old[s]]_vars

\* an adjust call whose only surviving entry changed one slot of a buffer of
\* two, next to an entry that was dropped
C11_Witness ==
    /\ last.op = "adjust"
    /\ max_length >= 2
    /\ Len(last.indices) = 2
    /\ Survives(1)
    /\ ~Survives(2)
    /\ last.indices[1] # last.indices[2]
    /\ buffer.log_q_old[last.indices[1]] = last.log_q_old[1]

\* C12, as stated: adjust operates only over the live window: for any indices
\* argument it writes only slots in [0, n), n = current_index if the buffer is
\* not full, else max_length.
C12_AdjustOnlyLiveWindow ==
    [][last'.op = "adjust" =>
        \A s \in Slots : s >= LiveWindow =>
            /\ buffer'.log_w[s] = buffer.log_w[s]
            /\ buffer'.log_q_old[s] = buffer.log_q_old[s]]_vars

\* C13: for any reachable buffer state S, save followed by load into a buffer
\* of the same max_length, whatever has happened to it in between, leaves x,
\* log_w, log_q_old, current_index, is_full and can_sample equal to those of
\* S: save writes S to the file, no other call of the buffer changes the file,
\* and load makes the buffer equal to the file.
C13_SaveLoadRoundTrip ==
    [][/\ last'.op = "save" =>
             /\ Len(file') = 1
             /\ file'[1].x = buffer.x
             /\ file'[1].log_w = buffer.log_w
             /\ file'[1].log_q_old = buffer.log_q_old
             /\ file'[1].current_index = current_index
             /\ file'[1].is_full = is_full
             /\ file'[1].can_sample = can_sample
       /\ last'.op \notin {"save", "other.save"} => file' = file
       /\ (/\ last'.op = "load"
           /\ file # <<>>
           /\ FileLength(file[1]) = max_length) =>
             /\ last'.ok
             /\ buffer'.x = file[1].x
             /\ buffer'.log_w = file[1].log_w
             /\ buffer'.log_q_old = file[1].log_q_old
             /\ current_index' = file[1].current_index
             /\ is_full' = file[1].is_full
             /\ can_sample' = file[1].can_sample]_vars

\* a buffer saved with one record, then filled, then loaded back
C13_Witness ==
    /\ last.op = "load"
    /\ last.ok
    /\ max_length = 2
    /\ FileLength(file[1]) = max_length
    /\ total = max_length
    /\ ~is_full
    /\ current_index = 1
    /\ buffer.x[0] # 0

\* C17, as stated: load of a saved state whose max_length differs from the
\* receiving buffer's raises, and leaves the receiving buffer's arrays,
\* current_index, is_full and can_sample unchanged.
C17_LoadRejectsOtherLength ==
    [][(/\ last'.op = "load"
        /\ file # <<>>
        /\ FileLength(file[1]) # max_length) =>
          /\ ~last'.ok
          /\ buffer' = buffer
          /\ current_index' = current_index
          /\ is_full' = is_full
          /\ can_sample' = can_sample]_vars

\* C14: sample and sample_n_batches raise the buffer-not-ready exception
\* whenever can_sample is false, without drawing or returning any index, and
\* never raise it when can_sample is true.
C14_SampleNeedsCanSample ==
    last.op \in {"sample", "sample_n_batches"} =>
        /\ ~can_sample =>
              /\ ~last.ok
              /\ last.error = "Exception"
              /\ last.indices = <<>>
              /\ last.dataset = <<>>
        /\ can_sample => last.error # "Exception"

\* sample_n_batches called during the fill loop, refused
C14_Witness ==
    /\ last.op = "sample_n_batches"
    /\ ~can_sample
    /\ last.error = "Exception"

\* C15, as stated: add of a batch of more than max_length records raises and
\* leaves the arrays, current_index, is_full and can_sample unchanged.
C15_AddRejectsOversizedBatch ==
    [][(last'.op = "add" /\ last'.batch_size > max_length) =>
          /\ ~last'.ok
          /\ buffer' = buffer
          /\ current_index' = current_index
          /\ is_full' = is_full
          /\ can_sample' = can_sample]_vars

\* C16: without replacement, sample(batch_size) with batch_size greater than
\* the live window size raises and returns no indices; and no sample without
\* replacement returns an index outside the live window or a repeated index.
C16_SampleRejectsOversizedDraw ==
    (last.op = "sample" /\ ~sample_with_replacement /\ can_sample) =>
        /\ last.batch_size > LiveWindow =>
              /\ ~last.ok
              /\ last.error = "RuntimeError"
              /\ last.indices = <<>>
        /\ last.ok =>
              /\ \A j \in 1 .. Len(last.indices) : last.indices[j] \in 0 .. (LiveWindow - 1)
              /\ \A i, j \in 1 .. Len(last.indices) :
                    i # j => last.indices[i] # last.indices[j]

\* a draw without replacement of more records than the live window holds
C16_Witness ==
    /\ last.op = "sample"
    /\ ~sample_with_replacement
    /\ can_sample
    /\ LiveWindow >= 1
    /\ last.batch_size > LiveWindow
    /\ ~last.ok

\* C18: construction with min_sample_length >= max_length raises before the
\* initial sampler is called even once; construction with min_sample_length <
\* max_length never raises on this check.
C18_ConstructionChecksConfiguration ==
    pc # "new" =>
        /\ min_sample_length >= max_length <=> pc = "failed"
        /\ pc = "failed" =>
              /\ last.op = "__init__"
              /\ ~last.ok
              /\ last.error = "AssertionError"
              /\ total = 0
              /\ written = {}

\* construction refused for min_sample_length = max_length
C18_Witness ==
    /\ pc = "failed"
    /\ min_sample_length = max_length
    /\ last.op = "__init__"

\* C19: a sample_n_batches(batch_size, n_batches) that returns has made a
\* single draw of batch_size * n_batches records (so without replacement no
\* index occurs twice in the whole result) and returns exactly n_batches
\* tuples of batch_size entries each, where tuple j (from 0) holds positions
\* [j * batch_size, (j + 1) * batch_size) of the drawn x, log_w, log_q_old and
\* indices, in order and co-indexed.
C19_SampleNBatchesChunksOneDraw ==
    (last.op = "sample_n_batches" /\ last.ok) =>
        LET bs == last.batch_size
            n == last.n_batches
        IN  /\ Len(last.indices) = bs * n
            /\ ~sample_with_replacement =>
                  \A i, j \in 1 .. (bs * n) : i # j => last.indices[i] # last.indices[j]
            /\ Len(last.dataset) = n
            /\ \A j \in 1 .. n :
                  /\ Len(last.dataset[j].x) = bs
                  /\ Len(last.dataset[j].log_w) = bs
                  /\ Len(last.dataset[j].log_q_old) = bs
                  /\ Len(last.dataset[j].indices) = bs
                  /\ \A p \in 1 .. bs :
                        LET q == (j - 1) * bs + p
                        IN  /\ last.dataset[j].indices[p] = last.indices[q]
                            /\ last.dataset[j].x[p] = buffer.x[last.indices[q]]
                            /\ last.dataset[j].log_w[p] = buffer.log_w[last.indices[q]]
                            /\ last.dataset[j].log_q_old[p] = buffer.log_q_old[last.indices[q]]

\* a result of two batches of two records each, the batches holding different
\* indices
C19_Witness ==
    /\ last.op = "sample_n_batches"
    /\ last.ok
    /\ last.batch_size = 2
    /\ last.n_batches = 2
    /\ last.dataset[1].indices # last.dataset[2].indices

\* C20, as stated: with max_length 6, min_sample_length 3 and an initial
\* sampler that returns batches of 2, the state right after construction has
\* current_index = 0, is_full true, can_sample true and live window size 6.
C20_Original ==
    [][(pc = "init" /\ pc' = "ready") =>
          /\ current_index' = 0
          /\ is_full'
          /\ can_sample'
          /\ LiveWindow' = 6]_vars

\* C20, amended: with max_length 6, min_sample_length 3 and an initial sampler
\* that returns batches of 2, construction stops after two batches: the state
\* right after it has current_index = 4, is_full false, can_sample true and
\* live window size 4.
C20_ScenarioAfterConstruction ==
    [][(pc = "init" /\ pc' = "ready") =>
          /\ current_index' = 4
          /\ ~is_full'
          /\ can_sample'
          /\ LiveWindow' = 4
          /\ written' = 0 .. 3]_vars

\* the scenario's buffer right after construction
C20_Witness ==
    /\ max_length = 6
    /\ min_sample_length = 3
    /\ pc = "ready"
    /\ total = 4
    /\ last.op = "add"
    /\ last.batch_size = 2

\* C21: in every reachable state every slot of the live window (the first
\* current_index slots if the buffer is not full, all max_length slots if it
\* is) holds a record that add wrote there, or that load restored from such a
\* state, never the zeros the arrays were allocated with; and a sample or
\* sample_n_batches call that returns gives indices of the live window only,
\* with the inserted data stored there.
C21_LiveWindowHoldsInsertedRecords ==
    /\ \A s \in 0 .. (LiveWindow - 1) :
          /\ s \in written
          /\ buffer.x[s] # 0
    /\ (last.op \in {"sample", "sample_n_batches"} /\ last.ok) =>
          \A j \in 1 .. Len(last.indices) :
             /\ last.indices[j] \in 0 .. (LiveWindow - 1)
             /\ last.indices[j] \in written
             /\ last.x[j] # 0

\* a sample returned from a buffer of two slots of which only the first has
\* been inserted into, after an adjust call changed log_w of the second
C21_Witness ==
    /\ last.op = "sample"
    /\ last.ok
    /\ max_length = 2
    /\ ~is_full
    /\ current_index = 1
    /\ written = {0}
    /\ buffer.x[1] = 0
    /\ buffer.log_w[1] # Fin(0)

\* both threads have returned from add
BothDone == threads.th # <<>> /\ \A t \in Threads : threads.th[t].at = "done"

\* the number of records the two threads handed to add
Handed == Len(threads.th[1].batch) + Len(threads.th[2].batch)

\* the slots thread t wrote
SlotsOf(t) == {threads.th[t].indices[j] : j \in DOMAIN threads.th[t].indices}

\* C22: add is not safe for concurrent use without mutual exclusion by the
\* caller. When every add call runs as one step under a single lock, two
\* concurrent adds of b1 and b2 records (b1 + b2 <= max_length) leave
\* current_index advanced by b1 + b2, write disjoint slots, store every record
\* of both batches, and set is_full as b1 + b2 inserted records require; without
\* the lock a state is reachable where both wrote the same slots and
\* current_index advanced by one batch only (the witness).
C22_LockedAddsLoseNothing ==
    (threads.locked /\ BothDone) =>
        /\ current_index = (threads.start + Handed) % max_length
        /\ SlotsOf(1) \cap SlotsOf(2) = {}
        /\ \A t \in Threads : \A j \in DOMAIN threads.th[t].batch :
              /\ buffer.x[threads.th[t].indices[j]] = threads.th[t].batch[j].x
              /\ buffer.log_w[threads.th[t].indices[j]] = threads.th[t].batch[j].log_w
              /\ buffer.log_q_old[threads.th[t].indices[j]] = threads.th[t].batch[j].log_q_old
        /\ is_full <=> (threads.start_full \/ threads.start + Handed >= max_length)

\* without a lock: both threads read current_index before either stored the
\* new one, wrote the same slots, and the cursor advanced by one batch only
C22_Witness ==
    /\ ~threads.locked
    /\ BothDone
    /\ SlotsOf(1) = SlotsOf(2)
    /\ Len(threads.th[1].batch) = Len(threads.th[2].batch)
    /\ current_index = (threads.start + Len(threads.th[1].batch)) % max_length
    /\ current_index # (threads.start + Handed) % max_length

\* the n slots whose records were inserted earliest among those stored
Oldest(n) == {order[j] : j \in (1 .. n) \cap DOMAIN order}

\* C23: eviction is first in, first out. Once the buffer is full every slot
\* holds a stored record, and an add of b <= max_length records overwrites
\* exactly the b slots whose records were inserted earliest; every other slot
\* keeps its x, log_w and log_q_old. The log_w of a record, as inserted or as
\* adjust has left it, has no part in this.
C23_EvictionIsFifo ==
    [][(last'.op = "add" /\ is_full /\ last'.batch_size <= max_length) =>
        LET b == last'.batch_size
            evicted == {last'.indices[j] : j \in 1 .. b}
        IN  /\ Len(order) = max_length
            /\ Cardinality(evicted) = b
            /\ evicted = Oldest(b)
            /\ \A s \in Slots \ evicted :
                  /\ buffer'.x[s] = buffer.x[s]
                  /\ buffer'.log_w[s] = buffer.log_w[s]
                  /\ buffer'.log_q_old[s] = buffer.log_q_old[s]]_vars

\* a full buffer of two records took one more: the record that stays, now the
\* oldest, is one that is never sampled (log_w = -inf), and the one with the
\* greater weight was evicted
C23_Witness ==
    /\ last.op = "add"
    /\ last.batch_size = 1
    /\ max_length = 2
    /\ is_full
    /\ current_index = 1
    /\ order = <<1, 0>>
    /\ buffer.log_w[1] = NInf
    /\ nops >= 1

\* C24, as stated: construction terminates: with a sampler that returns at
\* least one record per call the fill loop reaches can_sample after finitely
\* many calls; the sampler is called only while can_sample is false and the
\* loop ends at the call that makes it true; and a call that returns an empty
\* batch never ends the loop.
C24_Original ==
    /\ (pc = "init") ~> (pc = "ready")
    /\ [][(pc = "init" /\ last'.op = "add") =>
            /\ ~can_sample
            /\ pc' = "ready" <=> can_sample']_vars
    /\ [][(pc = "init" /\ last'.op = "add" /\ last'.batch_size = 0) => pc' = "init"]_vars

\* C24, amended: the same, except that an empty batch leaves the loop running
\* exactly when min_sample_length >= 1; with min_sample_length = 0 the first
\* call ends the loop whatever it returns.
C24_FillLoopTerminates ==
    /\ (pc = "init") ~> (pc = "ready")
    /\ [][(pc = "init" /\ last'.op = "add") =>
            /\ ~can_sample
            /\ pc' = "ready" <=> can_sample']_vars
    /\ [][(pc = "init" /\ last'.op = "add" /\ last'.batch_size = 0) =>
            (pc' = "init" <=> min_sample_length >= 1)]_vars
    /\ [][(pc = "init" /\ last'.op = "add" /\ min_sample_length = 0) => pc' = "ready"]_vars

\* construction with min_sample_length = 0 has returned after one call of the
\* sampler, which gave an empty batch: nothing is stored
C24_Witness ==
    /\ pc = "ready"
    /\ min_sample_length = 0
    /\ last.op = "add"
    /\ last.batch_size = 0
    /\ can_sample
    /\ written = {}

\* C25: current_index is an integer in [0, max_length) in every reachable
\* state: after construction and after any sequence of add calls of any batch
\* size (empty, and longer than max_length, included), sample, adjust, save and
\* load calls.
C25_CursorInRange ==
    /\ current_index \in Int
    /\ 0 <= current_index
    /\ current_index < max_length

\* an add of max_length + 1 records at cursor 1 of a buffer of two, which took
\* the cursor past the end twice over and left it at 0
C25_Witness ==
    /\ last.op = "add"
    /\ max_length = 2
    /\ last.batch_size = max_length + 1
    /\ last.indices = <<1, 0, 1>>
    /\ current_index = 0

\* C26: once construction has returned, in every state reached by add of
\* batches of 1 to max_length records, sample, and adjust on the indices the
\* last sample returned, in any order, can_sample is true and the live window
\* holds at least min_sample_length slots; so a sample without replacement of
\* at most min_sample_length records is never refused for lack of readiness,
\* never asks for more slots than the window has, and returns whenever every
\* log_w of the window is finite (fexp takes exp of a finite number to be
\* positive). The self-check's loop of add, sample and adjust (lines 148 to
\* 151) never raises, however often it goes round.
C26_LoopNeverStarved ==
    /\ pc \in {"ready", "l149", "l150", "l151"} =>
          /\ can_sample
          /\ LiveWindow >= min_sample_length
    /\ (/\ last.op = "sample"
        /\ ~sample_with_replacement
        /\ last.batch_size <= min_sample_length) =>
          /\ last.error # "Exception"
          /\ last.batch_size <= LiveWindow
          /\ (\A s \in 0 .. (LiveWindow - 1) : buffer.log_w[s].k = "fin") => last.ok
    /\ pc # "main_failed"

\* the self-check some turns into its loop: the buffer is full and holds a
\* record that was sampled and adjusted twice (log_w 0, then 1, then 3)
C26_Witness ==
    /\ pc = "l149"
    /\ max_length = length
    /\ is_full
    /\ \E s \in Slots : buffer.log_w[s] = Fin(3) /\ buffer.log_q_old[s] = Fin(12)

\* C27, as stated: a correction is applied only to the record it was computed
\* for: when adjust is called with the indices a sample returned, every
\* surviving entry changes log_w and log_q_old of the record that was stored at
\* its slot when sample ran, even when add calls came between the sample and
\* the adjust: no entry lands on a record that has overwritten the slot since.
C27_AdjustHitsSampledRecord ==
    [][(last'.op = "adjust" /\ last'.indices = held.indices) =>
        \A j \in Entries' : Survives(j)' => last'.indices[j] \notin held.stale]_vars

====
